---------------------------- MODULE Spec2Model ----------------------------
(***************************************************************************)
(* A model of lib/Index/IndexSystem.cpp of indexstore-db: the asynchronous *)
(* delegate wrapper (AsyncIndexDelegate), the facade's forwarding methods, *)
(* the construction of the facade (IndexSystemImpl::init and               *)
(* IndexSystem::create) and the call-occurrence resolution                 *)
(* (foreachSymbolCallOccurrence with its closure subroutines).             *)
(***************************************************************************)
EXTENDS Integers, Sequences, FiniteSets, TLC

VARIABLES
  Other,      \* AsyncIndexDelegate::Other is non-null
  Queue,      \* AsyncIndexDelegate::Queue: the tasks not yet taken by the worker
  running,    \* the task the queue's worker is executing, or NoTask
  userLog,    \* the calls the user delegate has received, in order of their start
  finished,   \* payloads of the user delegate calls that have returned
  handed,     \* history: asynchronous events handed to a delegate that wraps a user delegate
  nextId,     \* the payload of the next event
  failed,     \* payloads of the user delegate calls that failed instead of returning
  pc,         \* per thread: where the thread is
  cur,        \* per thread: the operation it is in, with its arguments
  ip,         \* per thread: index of the next collaborator call of a facade method
  trace,      \* per thread: the collaborator calls and returns of the current facade call
  snap,       \* per thread: Len(handed) when _wait was called / when the poll returned
  visPaths,   \* the unit output paths the FileVisibilityChecker knows
  dsPaths,    \* the unit output paths the IndexDatastore knows
  initPc,     \* where a call of IndexSystem::create is
  initArgs,   \* the arguments of that call
  Error,      \* the caller's error string
  Impl,       \* the IndexSystemImpl under construction: its members and init's locals
              \* (Err: what init returns; EC: what create_directories gave)
  Index,      \* what create returned: "none" (not yet), "null" or "facade"
  occs,       \* the occurrences the SymbolIndex holds
  pathFacts,  \* the facts about files, units and includes the FilePathIndex holds
  query       \* the last call-resolution query: its arguments and what it gave

vars == << Other, Queue, running, userLog, finished, handed, nextId, failed,
           pc, cur, ip, trace, snap, visPaths, dsPaths,
           initPc, initArgs, Error, Impl, Index, occs, pathFacts, query >>

delegateVars == << Other, Queue, running, userLog, finished, handed, nextId, failed >>
threadVars == << pc, cur, ip, trace, snap >>
pathVars == << visPaths, dsPaths >>
createVars == << initPc, initArgs, Error, Impl, Index >>
callVars == << occs, pathFacts, query >>

----------------------------------------------------------------------------
(* Bounds *)

\* The events reported in one run.
MaxCalls == 3

\* The threads of the datastore that report events to its delegate, the
\* threads of the facade's callers, and among these the one (a test's) that
\* polls and drains.
Reporters == {"r1", "r2"}
Clients == {"c1", "c2"}
Testers == {"c1"}
Threads == Reporters \cup Clients

NoTask == [type |-> "none"]
NoOp == [op |-> "none"]

\* The thread is in no operation: it has made no call yet ("idle") or has the
\* return of its last one ("ret"), which cur still names.
Free(t) == pc[t] \in {"idle", "ret"}

----------------------------------------------------------------------------
(* WorkQueue (IndexStoreDB/Support/Concurrency.h): a serial queue.          *)

\* WorkQueue::dispatch: the task goes to the back of the queue; the caller goes on.
Dispatch(q, task) == Append(q, task)

\* WorkQueue::dispatchSync: the task goes to the back of the queue and the
\* caller is blocked until the worker has run it.
DispatchSync(q, t) == Append(q, [type |-> "sync", by |-> t])

\* The closure an event operation hands to the queue: the user delegate's
\* method it will call and the arguments it captured by value.
Closure(method, arg, synchronous) ==
  [type |-> "event", method |-> method, arg |-> arg, synchronous |-> synchronous]

----------------------------------------------------------------------------
(* AsyncIndexDelegate.  Each event operation yields the queue it leaves and *)
(* the user delegate calls it makes inline, on the calling thread.          *)

processingAddedPending_Inline(q, NumActions) ==
  IF ~Other THEN [Queue |-> q, inline |-> << >>]
  ELSE [Queue |-> q, inline |-> << Closure("processingAddedPending", NumActions, FALSE) >>]

processingAddedPending(q, NumActions) ==
  IF ~Other THEN [Queue |-> q, inline |-> << >>]
  ELSE [Queue |-> Dispatch(q, Closure("processingAddedPending", NumActions, FALSE)),
        inline |-> << >>]

processingCompleted_CopyPaste(q, NumActions) ==
  IF ~Other THEN [Queue |-> q, inline |-> << >>]
  ELSE [Queue |-> Dispatch(q, Closure("processingAddedPending", NumActions, FALSE)),
        inline |-> << >>]

processingCompleted(q, NumActions) ==
  IF ~Other THEN [Queue |-> q, inline |-> << >>]
  ELSE [Queue |-> Dispatch(q, Closure("processingCompleted", NumActions, FALSE)),
        inline |-> << >>]

processedStoreUnit_Inline(q, unitInfo) ==
  IF ~Other THEN [Queue |-> q, inline |-> << >>]
  ELSE [Queue |-> q, inline |-> << Closure("processedStoreUnit", unitInfo, FALSE) >>]

processedStoreUnit(q, unitInfo) ==
  IF ~Other THEN [Queue |-> q, inline |-> << >>]
  ELSE [Queue |-> Dispatch(q, Closure("processedStoreUnit", unitInfo, FALSE)),
        inline |-> << >>]

unitIsOutOfDate_SyncViaQueue(q, unitInfo, synchronous) ==
  IF ~Other THEN [Queue |-> q, inline |-> << >>]
  ELSE [Queue |-> Dispatch(q, Closure("unitIsOutOfDate", unitInfo, synchronous)),
        inline |-> << >>]

unitIsOutOfDate_AlwaysAsync(q, unitInfo, synchronous) ==
  IF ~Other THEN [Queue |-> q, inline |-> << >>]
  ELSE [Queue |-> Dispatch(q, Closure("unitIsOutOfDate", unitInfo, FALSE)),
        inline |-> << >>]

unitIsOutOfDate_NoNullCheck(q, unitInfo, synchronous) ==
  IF synchronous
    THEN [Queue |-> q, inline |-> << Closure("unitIsOutOfDate", unitInfo, TRUE) >>]
  ELSE IF ~Other THEN [Queue |-> q, inline |-> << >>]
  ELSE [Queue |-> Dispatch(q, Closure("unitIsOutOfDate", unitInfo, FALSE)),
        inline |-> << >>]

unitIsOutOfDate(q, unitInfo, synchronous) ==
  IF ~Other THEN [Queue |-> q, inline |-> << >>]
  ELSE IF synchronous
    THEN [Queue |-> q, inline |-> << Closure("unitIsOutOfDate", unitInfo, TRUE) >>]
  ELSE [Queue |-> Dispatch(q, Closure("unitIsOutOfDate", unitInfo, FALSE)),
        inline |-> << >>]

\* AsyncIndexDelegate::_wait: Queue.dispatchSync([]{}).  blocks says whether
\* the caller waits for the task.
wait_NoSync(q, t) == [Queue |-> Dispatch(q, [type |-> "noop", by |-> t]), blocks |-> FALSE]

wait(q, t) == [Queue |-> DispatchSync(q, t), blocks |-> TRUE]

EventMethods ==
  {"processingAddedPending", "processingCompleted", "processedStoreUnit", "unitIsOutOfDate"}

\* The virtual call of an IndexSystemDelegate method on the AsyncIndexDelegate.
EventOp(q, c) ==
  CASE c.op = "processingAddedPending" -> processingAddedPending(q, c.arg)
    [] c.op = "processingCompleted" -> processingCompleted(q, c.arg)
    [] c.op = "processedStoreUnit" -> processedStoreUnit(q, c.arg)
    [] c.op = "unitIsOutOfDate" -> unitIsOutOfDate(q, c.arg, c.synchronous)

\* History: the event is one the claims call "enqueued": an asynchronous
\* event handed to a delegate that wraps a user delegate.
Handed(h, c, t) ==
  IF Other /\ ~c.synchronous
    THEN Append(h, [method |-> c.op, arg |-> c.arg, by |-> t])
    ELSE h


----------------------------------------------------------------------------
(* The facade's forwarding methods: the collaborator calls each makes, in   *)
(* order.  A thread runs them one after the other, each call returning      *)
(* before the next begins.                                                  *)

addUnitOutFilePaths_DatastoreFirst(filePaths, waitForProcessing) ==
  << [callee |-> "IndexStore", op |-> "addUnitOutFilePaths",
      filePaths |-> filePaths, waitForProcessing |-> waitForProcessing],
     [callee |-> "VisibilityChecker", op |-> "addUnitOutFilePaths",
      filePaths |-> filePaths] >>

addUnitOutFilePaths(filePaths, waitForProcessing) ==
  << [callee |-> "VisibilityChecker", op |-> "addUnitOutFilePaths",
      filePaths |-> filePaths],
     [callee |-> "IndexStore", op |-> "addUnitOutFilePaths",
      filePaths |-> filePaths, waitForProcessing |-> waitForProcessing] >>

removeUnitOutFilePaths(filePaths, waitForProcessing) ==
  << [callee |-> "VisibilityChecker", op |-> "removeUnitOutFilePaths",
      filePaths |-> filePaths],
     [callee |-> "IndexStore", op |-> "removeUnitOutFilePaths",
      filePaths |-> filePaths, waitForProcessing |-> waitForProcessing] >>

pollForUnitChangesAndWait_WaitFirst ==
  << [callee |-> "DelegateWrap", op |-> "_wait"],
     [callee |-> "IndexStore", op |-> "pollForUnitChangesAndWait"] >>

pollForUnitChangesAndWait ==
  << [callee |-> "IndexStore", op |-> "pollForUnitChangesAndWait"],
     [callee |-> "DelegateWrap", op |-> "_wait"] >>

\* A direct call of AsyncIndexDelegate::_wait (the tests' drain()).
DrainCall == << [callee |-> "DelegateWrap", op |-> "_wait"] >>

Script(c) ==
  CASE c.op = "addUnitOutFilePaths" -> addUnitOutFilePaths(c.filePaths, c.waitForProcessing)
    [] c.op = "removeUnitOutFilePaths" -> removeUnitOutFilePaths(c.filePaths, c.waitForProcessing)
    [] c.op = "pollForUnitChangesAndWait" -> pollForUnitChangesAndWait
    [] c.op = "_wait" -> DrainCall

----------------------------------------------------------------------------
(* Threads reporting events to the AsyncIndexDelegate *)

\* A thread (of the datastore) calls an event operation, which runs up to
\* its return or to the start of the user delegate's callback it makes inline.
\* Up to there the operation reads only Other, which never changes, and its
\* one access to shared state is the queue's dispatch.
CallEvent(t) ==
  /\ t \in Reporters
  /\ Free(t)
  /\ nextId <= MaxCalls
  /\ nextId' = nextId + 1
  /\ \E m \in EventMethods, s \in BOOLEAN :
       /\ s => m = "unitIsOutOfDate"
       /\ LET c == [op |-> m, arg |-> nextId, synchronous |-> s]
              r == EventOp(Queue, c)
          IN
            /\ cur' = [cur EXCEPT ![t] = c]
            /\ Queue' = r.Queue
            /\ handed' = Handed(handed, c, t)
            /\ IF r.inline = << >>
                 THEN /\ pc' = [pc EXCEPT ![t] = "ret"]
                      /\ userLog' = userLog
                 ELSE /\ pc' = [pc EXCEPT ![t] = "inline"]
                      /\ userLog' = Append(userLog,
                           [method |-> r.inline[1].method, arg |-> r.inline[1].arg,
                            synchronous |-> r.inline[1].synchronous, thread |-> t])
  /\ UNCHANGED << Other, failed, running, finished, ip, trace, snap, pathVars >>
  /\ UNCHANGED << createVars, callVars >>

\* The user delegate's callback, called inline, returns; then so does the
\* event operation.
InlineReturn(t) ==
  /\ pc[t] = "inline"
  /\ finished' = finished \cup {cur[t].arg}
  /\ pc' = [pc EXCEPT ![t] = "ret"]
  /\ UNCHANGED << Other, failed, Queue, running, userLog, handed, nextId,
                  cur, ip, trace, snap, pathVars >>
  /\ UNCHANGED << createVars, callVars >>

----------------------------------------------------------------------------
(* The queue's worker *)

\* The worker takes the task at the front and starts it: for an event, it
\* calls the user delegate.
WorkerStart ==
  /\ running = NoTask
  /\ Queue # << >>
  /\ running' = Head(Queue)
  /\ Queue' = Tail(Queue)
  /\ userLog' = IF Head(Queue).type = "event"
                  THEN Append(userLog,
                         [method |-> Head(Queue).method, arg |-> Head(Queue).arg,
                          synchronous |-> Head(Queue).synchronous, thread |-> "worker"])
                  ELSE userLog
  /\ UNCHANGED << Other, failed, finished, handed, nextId, threadVars, pathVars >>
  /\ UNCHANGED << createVars, callVars >>

\* The task returns; a dispatchSync task releases its caller.
WorkerFinish ==
  /\ running # NoTask
  /\ running' = NoTask
  /\ finished' = IF running.type = "event" THEN finished \cup {running.arg} ELSE finished
  /\ pc' = IF running.type = "sync" THEN [pc EXCEPT ![running.by] = "released"] ELSE pc
  /\ UNCHANGED << Other, failed, Queue, userLog, handed, nextId, cur, ip, trace, snap, pathVars >>
  /\ UNCHANGED << createVars, callVars >>

WorkerFail_Poison ==
  /\ running # NoTask
  /\ running.type = "event"
  /\ running' = [type |-> "dead"]
  /\ failed' = failed \cup {running.arg}
  /\ UNCHANGED << Other, Queue, userLog, finished, handed, nextId, threadVars, pathVars >>
  /\ UNCHANGED << createVars, callVars >>

\* The user delegate's callback fails instead of returning: the closure of
\* the event operation lets the failure through to the worker, which goes on
\* to its next task.
WorkerFail ==
  /\ running # NoTask
  /\ running.type = "event"
  /\ running' = NoTask
  /\ failed' = failed \cup {running.arg}
  /\ UNCHANGED << Other, Queue, userLog, finished, handed, nextId, threadVars, pathVars >>
  /\ UNCHANGED << createVars, callVars >>


----------------------------------------------------------------------------
(* Threads calling the facade *)

PathSets == {{"a.o"}, {"b.o"}, {"a.o", "b.o"}}

\* A test calls AsyncIndexDelegate::_wait.
CallDrain(t) ==
  /\ t \in Testers
  /\ Free(t)
  /\ pc' = [pc EXCEPT ![t] = "exec"]
  /\ cur' = [cur EXCEPT ![t] = [op |-> "_wait"]]
  /\ ip' = [ip EXCEPT ![t] = 1]
  /\ trace' = [trace EXCEPT ![t] = << >>]
  /\ snap' = [snap EXCEPT ![t] = Len(handed)]
  /\ UNCHANGED << delegateVars, pathVars >>
  /\ UNCHANGED << createVars, callVars >>

\* A caller calls IndexSystem::pollForUnitChangesAndWait.
CallPoll(t) ==
  /\ t \in Testers
  /\ Free(t)
  /\ pc' = [pc EXCEPT ![t] = "exec"]
  /\ cur' = [cur EXCEPT ![t] = [op |-> "pollForUnitChangesAndWait"]]
  /\ ip' = [ip EXCEPT ![t] = 1]
  /\ trace' = [trace EXCEPT ![t] = << >>]
  /\ snap' = [snap EXCEPT ![t] = 0]
  /\ UNCHANGED << delegateVars, pathVars >>
  /\ UNCHANGED << createVars, callVars >>

\* A caller calls IndexSystem::addUnitOutFilePaths or removeUnitOutFilePaths.
CallPaths(t) ==
  /\ t \in Clients
  /\ Free(t)
  /\ \E o \in {"addUnitOutFilePaths", "removeUnitOutFilePaths"},
        ps \in PathSets, w \in BOOLEAN :
       cur' = [cur EXCEPT ![t] = [op |-> o, filePaths |-> ps, waitForProcessing |-> w]]
  /\ pc' = [pc EXCEPT ![t] = "exec"]
  /\ ip' = [ip EXCEPT ![t] = 1]
  /\ trace' = [trace EXCEPT ![t] = << >>]
  /\ snap' = [snap EXCEPT ![t] = 0]
  /\ UNCHANGED << delegateVars, pathVars >>
  /\ UNCHANGED << createVars, callVars >>

CurStep(t) == Script(cur[t])[ip[t]]

\* The facade method makes its next collaborator call.
StepBegin(t) ==
  /\ pc[t] = "exec"
  /\ LET st == CurStep(t) IN
       /\ trace' = [trace EXCEPT ![t] = Append(@, [step |-> st, ev |-> "call"])]
       /\ IF st.callee = "DelegateWrap"
            THEN /\ Queue' = wait(Queue, t).Queue
                 /\ pc' = [pc EXCEPT ![t] = IF wait(Queue, t).blocks THEN "blocked" ELSE "in"]
                 /\ UNCHANGED pathVars
            ELSE /\ pc' = [pc EXCEPT ![t] = "in"]
                 /\ Queue' = Queue
                 /\ visPaths' =
                      IF st.callee # "VisibilityChecker" THEN visPaths
                      ELSE IF st.op = "addUnitOutFilePaths" THEN visPaths \cup st.filePaths
                      ELSE visPaths \ st.filePaths
                 /\ dsPaths' =
                      IF st.callee # "IndexStore" THEN dsPaths
                      ELSE IF st.op = "addUnitOutFilePaths" THEN dsPaths \cup st.filePaths
                      ELSE IF st.op = "removeUnitOutFilePaths" THEN dsPaths \ st.filePaths
                      ELSE dsPaths
  /\ UNCHANGED << Other, failed, running, userLog, finished, handed, nextId, cur, ip, snap >>
  /\ UNCHANGED << createVars, callVars >>

\* The collaborator call returns.
StepEnd(t) ==
  /\ pc[t] \in {"in", "released"}
  /\ LET st == CurStep(t) IN
       /\ trace' = [trace EXCEPT ![t] = Append(@, [step |-> st, ev |-> "ret"])]
       /\ snap' = IF st.callee = "IndexStore" /\ st.op = "pollForUnitChangesAndWait"
                    THEN [snap EXCEPT ![t] = Len(handed)]
                    ELSE snap
  /\ ip' = [ip EXCEPT ![t] = @ + 1]
  /\ pc' = [pc EXCEPT ![t] = IF ip[t] + 1 > Len(Script(cur[t])) THEN "ret" ELSE "exec"]
  /\ UNCHANGED << delegateVars, cur, pathVars >>
  /\ UNCHANGED << createVars, callVars >>

\* During its poll the datastore reports an event to its delegate, the
\* AsyncIndexDelegate.
PollEmit(t) ==
  /\ pc[t] = "in"
  /\ cur[t].op = "pollForUnitChangesAndWait"
  /\ CurStep(t).callee = "IndexStore"
  /\ nextId <= MaxCalls
  /\ \E m \in EventMethods :
       LET c == [op |-> m, arg |-> nextId, synchronous |-> FALSE] IN
         /\ Queue' = EventOp(Queue, c).Queue
         /\ handed' = Handed(handed, c, t)
  /\ nextId' = nextId + 1
  /\ UNCHANGED << Other, failed, running, userLog, finished, threadVars, pathVars >>
  /\ UNCHANGED << createVars, callVars >>

----------------------------------------------------------------------------
(* Construction: IndexSystem::create and IndexSystemImpl::init.  A state of *)
(* the construction is [pc, Err, Error, Impl]: where init is, what it       *)
(* returns, the caller's error string, and the members and locals built.    *)

NullImpl ==
  [DelegateWrap |-> FALSE, dbase |-> FALSE, idxStoreLib |-> FALSE, idxStore |-> FALSE,
   canonPathCache |-> FALSE, VisibilityChecker |-> FALSE, SymIndex |-> FALSE,
   PathIndex |-> FALSE, IndexStore |-> FALSE]

\* The collaborators' factories: each gives its object, or gives none and
\* writes the reason into the error string.
DatabaseCreate(ok, E) ==
  [obj |-> ok, Error |-> IF ok THEN E ELSE "could not open database"]

IndexStoreCreate(ok, E) ==
  [obj |-> ok, Error |-> IF ok THEN E ELSE "could not open index store"]

IndexDatastoreCreate(ok, E) ==
  [obj |-> ok, Error |-> IF ok THEN E ELSE "could not create datastore"]

\* init, to its call of Database::create.
initStart(S) ==
  [S EXCEPT !.Impl = [NullImpl EXCEPT !.DelegateWrap = TRUE], !.pc = "dbase"]

\* Database::create and the check of its result.
initDatabase(S, ok) ==
  LET r == DatabaseCreate(ok, S.Error) IN
    IF ~r.obj
      THEN [S EXCEPT !.Error = r.Error, !.Err = TRUE, !.pc = "return"]
      ELSE [S EXCEPT !.Error = r.Error, !.Impl.dbase = TRUE, !.pc = "lib"]

\* getLibraryForStorePath and the check of its result.
initLibrary(S, ok) ==
  IF ~ok
    THEN [S EXCEPT !.Error = "could not determine indexstore library",
                   !.Err = TRUE, !.pc = "return"]
    ELSE [S EXCEPT !.Impl.idxStoreLib = TRUE, !.pc = "mkdir"]

MkdirMessage == "could not create directories for data store path"

initDirectories_Abort(S, readonly, ok) ==
  IF readonly THEN [S EXCEPT !.pc = "store"]
  ELSE IF ~ok
    THEN [S EXCEPT !.EC = "error", !.Error = MkdirMessage, !.Err = TRUE, !.pc = "return"]
    ELSE [S EXCEPT !.EC = "success", !.pc = "store"]

\* The creation of the store's directory, unless readonly.  EC is what
\* create_directories gave: "none" as long as it was not called.
initDirectories(S, readonly, ok) ==
  IF readonly THEN [S EXCEPT !.pc = "store"]
  ELSE IF ~ok
    THEN [S EXCEPT !.EC = "error", !.Error = MkdirMessage, !.pc = "store"]
    ELSE [S EXCEPT !.EC = "success", !.pc = "store"]

initStore_ReturnFalse(S, ok) ==
  LET r == IndexStoreCreate(ok, S.Error) IN
    IF ~r.obj
      THEN [S EXCEPT !.Error = r.Error, !.Err = FALSE, !.pc = "return"]
      ELSE [S EXCEPT !.Error = r.Error, !.Impl.idxStore = TRUE, !.pc = "collab"]

\* indexstore::IndexStore::create and the check of its result.
initStore(S, ok) ==
  LET r == IndexStoreCreate(ok, S.Error) IN
    IF ~r.obj
      THEN [S EXCEPT !.Error = r.Error, !.Err = TRUE, !.pc = "return"]
      ELSE [S EXCEPT !.Error = r.Error, !.Impl.idxStore = TRUE, !.pc = "collab"]

\* The path cache, the visibility checker, the two indexes and the datastore;
\* init's return.
initCollaborators(S, ok) ==
  LET r == IndexDatastoreCreate(ok, S.Error)
      I == [S.Impl EXCEPT !.canonPathCache = TRUE, !.VisibilityChecker = TRUE,
                          !.SymIndex = TRUE, !.PathIndex = TRUE, !.IndexStore = r.obj]
  IN
    IF ~I.IndexStore
      THEN [S EXCEPT !.Error = r.Error, !.Impl = I, !.Err = TRUE, !.pc = "return"]
      ELSE [S EXCEPT !.Error = r.Error, !.Impl = I, !.Err = FALSE, !.pc = "return"]

\* IndexSystem::create after init: on an error the IndexSystemImpl is
\* destroyed and nullptr returned; otherwise the IndexSystem takes it over.
create(S) ==
  IF S.Err
    THEN [Index |-> "null", Impl |-> NullImpl]
    ELSE [Index |-> "facade", Impl |-> S.Impl]

InitState ==
  [pc |-> initPc, Err |-> Impl.Err, Error |-> Error, Impl |-> Impl.members, EC |-> Impl.EC]

\* The construction goes from its state to S.
Becomes(S) ==
  /\ initPc' = S.pc
  /\ Error' = S.Error
  /\ Impl' = [Err |-> S.Err, members |-> S.Impl, EC |-> S.EC]
  /\ UNCHANGED << initArgs, Index >>
  /\ UNCHANGED << delegateVars, threadVars, pathVars, callVars >>

\* A caller calls IndexSystem::create, its error string empty.
CallCreate ==
  /\ initPc = "idle"
  /\ \E d, u, r \in BOOLEAN :
       initArgs' = [Delegate |-> d, useExplicitOutputUnits |-> u, readonly |-> r]
  /\ initPc' = "init"
  /\ Error' = ""
  /\ Impl' = [Err |-> FALSE, members |-> NullImpl, EC |-> "none"]
  /\ Index' = "none"
  /\ UNCHANGED << delegateVars, threadVars, pathVars, callVars >>

InitStart ==
  /\ initPc = "init"
  /\ Becomes(initStart(InitState))

InitDatabase ==
  /\ initPc = "dbase"
  /\ \E ok \in BOOLEAN : Becomes(initDatabase(InitState, ok))

InitLibrary ==
  /\ initPc = "lib"
  /\ \E ok \in BOOLEAN : Becomes(initLibrary(InitState, ok))

InitDirectories ==
  /\ initPc = "mkdir"
  /\ \E ok \in BOOLEAN : Becomes(initDirectories(InitState, initArgs.readonly, ok))

InitStore ==
  /\ initPc = "store"
  /\ \E ok \in BOOLEAN : Becomes(initStore(InitState, ok))

InitCollaborators ==
  /\ initPc = "collab"
  /\ \E ok \in BOOLEAN : Becomes(initCollaborators(InitState, ok))

CreateReturn ==
  /\ initPc = "return"
  /\ initPc' = "done"
  /\ Index' = create(InitState).Index
  /\ Impl' = [Impl EXCEPT !.members = create(InitState).Impl]
  /\ UNCHANGED << initArgs, Error >>
  /\ UNCHANGED << delegateVars, threadVars, pathVars, callVars >>

\* The caller lets go of what create returned: IndexSystem::~IndexSystem
\* deletes the IndexSystemImpl.
Release ==
  /\ initPc = "done"
  /\ initPc' = "idle"
  /\ Index' = "none"
  /\ Impl' = [Err |-> FALSE, members |-> NullImpl, EC |-> "none"]
  /\ UNCHANGED << initArgs, Error >>
  /\ UNCHANGED << delegateVars, threadVars, pathVars, callVars >>

----------------------------------------------------------------------------
(* Symbols and occurrences.  A symbol is its USR; an occurrence has a       *)
(* symbol, a role set and relations, each a role set and a related symbol.  *)

\* Most occurrences the SymbolIndex holds in one run, and the largest k for
\* which a receiver is made to return false on its k-th call.
MaxOccs == 5
MaxStop == 3

Kind(USR) ==
  CASE USR \in {"m", "m1", "m2"} -> "InstanceMethod"
    [] USR \in {"D", "B", "U"} -> "Class"
    [] USR = "P" -> "Protocol"
    [] USR = "E" -> "Extension"

\* Symbol::isCallable
isCallable(USR) == Kind(USR) \in {"InstanceMethod", "Function"}

Rel(role, USR) == [roles |-> {role}, sym |-> USR]

\* An occurrence: its roles include the roles of its relations.
Occ(id, USR, roles, rels) ==
  [id |-> id, sym |-> USR,
   roles |-> roles \cup UNION {rels[i].roles : i \in 1..Len(rels)},
   rels |-> rels]

\* The occurrences a run's units can bring into the index, in the order in
\* which the SymbolIndex enumerates them.
Pool ==
  << Occ(1, "m", {"Definition", "Dynamic"}, << Rel("RelationOverrideOf", "m1") >>),
     Occ(2, "m1", {"Definition", "Dynamic"}, << Rel("RelationOverrideOf", "m2") >>),
     Occ(3, "m2", {"Definition", "Dynamic"}, << Rel("RelationOverrideOf", "m1") >>),
     Occ(4, "m1", {"Definition", "Dynamic"}, << Rel("RelationOverrideOf", "m") >>),
     Occ(5, "B", {"Reference"}, << Rel("RelationBaseOf", "D") >>),
     Occ(6, "D", {"Reference"}, << Rel("RelationBaseOf", "B") >>),
     Occ(7, "D", {"Reference"}, << Rel("RelationExtendedBy", "E") >>),
     Occ(8, "P", {"Reference"}, << Rel("RelationExtendedBy", "E") >>),
     Occ(9, "m", {"Reference", "Call"}, << >>),
     Occ(10, "m", {"Reference", "Call", "Dynamic"}, << Rel("RelationReceivedBy", "D") >>),
     Occ(11, "m1", {"Reference", "Call", "Dynamic"}, << Rel("RelationReceivedBy", "D") >>),
     Occ(12, "m1", {"Reference", "Call", "Dynamic"}, << Rel("RelationReceivedBy", "U") >>),
     Occ(13, "m1", {"Reference", "Call"}, << >>),
     Occ(14, "m2", {"Reference", "Call", "Dynamic"}, << >>),
     Occ(15, "m2", {"Reference", "Call", "Dynamic"},
         << Rel("RelationReceivedBy", "U"), Rel("RelationReceivedBy", "B") >>) >>

\* Occurrences a caller can hold besides those of the index (ids from 101).
CalleePool ==
  { Occ(101, "m", {"Reference", "Call"}, << >>),
    Occ(102, "m", {"Reference", "Call", "Dynamic"}, << >>),
    Occ(103, "m", {"Definition", "Dynamic"}, << Rel("RelationChildOf", "D") >>),
    Occ(104, "m", {"Definition", "Dynamic"}, << Rel("RelationChildOf", "P") >>),
    Occ(105, "m", {"Definition", "Dynamic"}, << Rel("RelationChildOf", "E") >>),
    Occ(106, "m", {"Reference", "Call", "Dynamic"},
        << Rel("RelationReceivedBy", "P"), Rel("RelationReceivedBy", "D") >>),
    Occ(107, "m", {"Reference", "Call", "Dynamic"},
        << Rel("RelationReceivedBy", "D"), Rel("RelationReceivedBy", "P") >>),
    Occ(108, "m", {"Reference", "Call", "Dynamic"},
        << Rel("RelationChildOf", "P"), Rel("RelationReceivedBy", "D") >>),
    Occ(109, "D", {"Reference"}, << >>),
    Occ(110, "m1", {"Reference", "Call", "Dynamic"}, << Rel("RelationReceivedBy", "P") >>),
    Occ(111, "m", {"Reference", "Call", "Dynamic"},
        << Rel("RelationReceivedBy", "E"), Rel("RelationReceivedBy", "B") >>),
    Occ(112, "m", {"Reference", "Call"}, << Rel("RelationReceivedBy", "D") >>),
    Occ(113, "D", {"Reference", "Call", "Dynamic"}, << Rel("RelationReceivedBy", "B") >>) }

Range(s) == {s[i] : i \in 1..Len(s)}

ContainsAny(roles, RoleSet) == roles \cap RoleSet # {}

RECURSIVE Flatten(_)
Flatten(ss) == IF ss = << >> THEN << >> ELSE Head(ss) \o Flatten(Tail(ss))

\* The index's occurrences, in its order.
IndexSeq ==
  LET ids == SelectSeq([i \in 1..Len(Pool) |-> i], LAMBDA i : i \in occs)
  IN [k \in 1..Len(ids) |-> Pool[ids[k]]]

\* What SymbolIndex::foreachSymbolOccurrenceByUSR enumerates: the occurrences
\* of the symbol that have a role of RoleSet.
OccurrencesByUSR(USR, RoleSet) ==
  SelectSeq(IndexSeq, LAMBDA o : o.sym = USR /\ ContainsAny(o.roles, RoleSet))

\* What SymbolIndex::foreachRelatedSymbolOccurrenceByUSR enumerates: the
\* occurrences with a relation of a role of RoleSet to the symbol.
RelatedOccurrencesByUSR(USR, RoleSet) ==
  SelectSeq(IndexSeq, LAMBDA o :
    \E i \in 1..Len(o.rels) : o.rels[i].sym = USR /\ ContainsAny(o.rels[i].roles, RoleSet))

\* What SymbolOccurrence::foreachRelatedSymbol enumerates.
RelatedSymbols(Occur, RoleSet) ==
  LET rs == SelectSeq(Occur.rels, LAMBDA r : ContainsAny(r.roles, RoleSet))
  IN [k \in 1..Len(rs) |-> rs[k].sym]

\* The caller's receiver, which returns false on its call number stopAt
\* (never, when stopAt is 0): log holds the occurrences it was called with.
Receiver(st, Occur, stopAt) ==
  [log |-> Append(st.log, Occur.id), Continue |-> Len(st.log) + 1 # stopAt]

\* The SymbolIndex calls the receiver on the occurrences in turn, until it
\* returns false.
RECURSIVE Enumerate(_, _, _)
Enumerate(os, st, stopAt) ==
  IF os = << >> \/ ~st.Continue THEN st
  ELSE Enumerate(Tail(os), Receiver(st, Head(os), stopAt), stopAt)

foreachSymbolOccurrenceByUSR(USR, RoleSet, log, stopAt) ==
  Enumerate(OccurrencesByUSR(USR, RoleSet), [log |-> log, Continue |-> TRUE], stopAt)

----------------------------------------------------------------------------
(* The closures *)

containsSymWithUSR_SkipFirst(Sym, Syms) == \E i \in 2..Len(Syms) : Syms[i] = Sym

containsSymWithUSR(Sym, Syms) == \E i \in 1..Len(Syms) : Syms[i] = Sym

containsOccurWithUSR(Sym, Occurs) == \E i \in 1..Len(Occurs) : Occurs[i].sym = Sym

\* The symbols getBaseMethodsOrClassesImpl hands to addEntry, in order.
BaseCandidates(Sym) ==
  IF Kind(Sym) = "InstanceMethod"
    THEN LET os == OccurrencesByUSR(Sym, {"RelationOverrideOf"})
         IN Flatten([k \in 1..Len(os) |-> RelatedSymbols(os[k], {"RelationOverrideOf"})])
    ELSE LET os == RelatedOccurrencesByUSR(Sym, {"RelationBaseOf"})
         IN [k \in 1..Len(os) |-> os[k].sym]

RECURSIVE getBaseMethodsOrClassesImpl(_, _)
RECURSIVE addBaseEntries(_, _)

addBaseEntries_NoRecursion(NewSyms, BaseSyms) ==
  IF NewSyms = << >> THEN BaseSyms
  ELSE IF ~containsSymWithUSR(Head(NewSyms), BaseSyms)
    THEN addBaseEntries(Tail(NewSyms), Append(BaseSyms, Head(NewSyms)))
    ELSE addBaseEntries(Tail(NewSyms), BaseSyms)

\* addEntry on each candidate in turn.
addBaseEntries(NewSyms, BaseSyms) ==
  IF NewSyms = << >> THEN BaseSyms
  ELSE IF ~containsSymWithUSR(Head(NewSyms), BaseSyms)
    THEN addBaseEntries(Tail(NewSyms),
           getBaseMethodsOrClassesImpl(Head(NewSyms), Append(BaseSyms, Head(NewSyms))))
    ELSE addBaseEntries(Tail(NewSyms), BaseSyms)

getBaseMethodsOrClassesImpl(Sym, BaseSyms) ==
  addBaseEntries(BaseCandidates(Sym), BaseSyms)

getBaseMethodsOrClasses(Sym) == getBaseMethodsOrClassesImpl(Sym, << >>)

RECURSIVE getAllRelatedOccursImpl(_, _, _)
RECURSIVE addRelatedEntries(_, _, _)

addRelatedEntries(NewOccurs, RoleSet, RelSyms) ==
  IF NewOccurs = << >> THEN RelSyms
  ELSE IF ~containsOccurWithUSR(Head(NewOccurs).sym, RelSyms)
    THEN addRelatedEntries(Tail(NewOccurs), RoleSet,
           getAllRelatedOccursImpl(Head(NewOccurs).sym, RoleSet,
                                   Append(RelSyms, Head(NewOccurs))))
    ELSE addRelatedEntries(Tail(NewOccurs), RoleSet, RelSyms)

getAllRelatedOccursImpl(Sym, RoleSet, RelSyms) ==
  addRelatedEntries(RelatedOccurrencesByUSR(Sym, RoleSet), RoleSet, RelSyms)

----------------------------------------------------------------------------
(* foreachSymbolCallOccurrence.  Its result is [ret, log, path]: what it    *)
(* returns, the occurrences the receiver was called with, and the place it  *)
(* returned from.                                                           *)

RelationToUse(Callee) ==
  IF ContainsAny(Callee.roles, {"Call"}) THEN "RelationReceivedBy" ELSE "RelationChildOf"

\* An extension is replaced by the symbol of the first occurrence related to
\* it by RelationExtendedBy, if there is one.
replaceExtension_Keep(clsSym) == clsSym

replaceExtension(clsSym) ==
  IF Kind(clsSym) = "Extension"
    THEN LET os == RelatedOccurrencesByUSR(clsSym, {"RelationExtendedBy"})
         IN IF os = << >> THEN clsSym ELSE os[1].sym
    ELSE clsSym

\* clsSyms, after the replacement of the extensions.
receiverClasses(Callee) ==
  LET clsSyms == RelatedSymbols(Callee, {RelationToUse(Callee)})
  IN [k \in 1..Len(clsSyms) |-> replaceExtension(clsSyms[k])]

takesProtocolPath_AllProtocols(clsSyms) ==
  \A k \in 1..Len(clsSyms) : Kind(clsSyms[k]) = "Protocol"

takesProtocolPath(clsSyms) == Kind(clsSyms[1]) = "Protocol"

\* The loop over overrideSyms.
RECURSIVE callsOfOverrides(_, _, _)
callsOfOverrides(overrideSyms, log, stopAt) ==
  IF overrideSyms = << >> THEN [ret |-> TRUE, log |-> log, path |-> "protocol"]
  ELSE LET r == foreachSymbolOccurrenceByUSR(Head(overrideSyms).sym, {"Call"}, log, stopAt)
       IN IF ~r.Continue
            THEN [ret |-> FALSE, log |-> r.log, path |-> "protocol"]
            ELSE callsOfOverrides(Tail(overrideSyms), r.log, stopAt)

\* The loop that fills ClassSyms.
RECURSIVE collectClassSyms(_, _)
collectClassSyms(clsSyms, ClassSyms) ==
  IF clsSyms = << >> THEN ClassSyms
  ELSE collectClassSyms(Tail(clsSyms),
         Append(getBaseMethodsOrClassesImpl(Head(clsSyms), ClassSyms), Head(clsSyms)))

dispatchReceiver_NoDynamicCheck(st, Occur, ClassSyms, stopAt) ==
  LET PossiblyCalledViaDispatch ==
        IF ~("RelationReceivedBy" \in Occur.roles) THEN TRUE
        ELSE \E RelSym \in Range(RelatedSymbols(Occur, {"RelationReceivedBy"})) :
               containsSymWithUSR(RelSym, ClassSyms)
  IN IF PossiblyCalledViaDispatch
       THEN Receiver(st, Occur, stopAt)
       ELSE [st EXCEPT !.Continue = TRUE]

\* The receiver the class-hierarchy path gives to the SymbolIndex.
dispatchReceiver(st, Occur, ClassSyms, stopAt) ==
  IF ~ContainsAny(Occur.roles, {"Dynamic"}) THEN [st EXCEPT !.Continue = TRUE]
  ELSE LET PossiblyCalledViaDispatch ==
             IF ~("RelationReceivedBy" \in Occur.roles) THEN TRUE
             ELSE \E RelSym \in Range(RelatedSymbols(Occur, {"RelationReceivedBy"})) :
                    containsSymWithUSR(RelSym, ClassSyms)
       IN IF PossiblyCalledViaDispatch
            THEN Receiver(st, Occur, stopAt)
            ELSE [st EXCEPT !.Continue = TRUE]

\* The SymbolIndex calls that receiver on the occurrences in turn, until it
\* returns false.
RECURSIVE EnumerateDispatch(_, _, _, _)
EnumerateDispatch(os, st, ClassSyms, stopAt) ==
  IF os = << >> \/ ~st.Continue THEN st
  ELSE EnumerateDispatch(Tail(os), dispatchReceiver(st, Head(os), ClassSyms, stopAt),
                         ClassSyms, stopAt)

\* The loop over BaseMethodSyms.
RECURSIVE callsOfBaseMethods(_, _, _, _)
callsOfBaseMethods(BaseMethodSyms, ClassSyms, log, stopAt) ==
  IF BaseMethodSyms = << >> THEN [ret |-> TRUE, log |-> log, path |-> "class"]
  ELSE LET r == EnumerateDispatch(OccurrencesByUSR(Head(BaseMethodSyms), {"Call"}),
                                  [log |-> log, Continue |-> TRUE], ClassSyms, stopAt)
       IN IF ~r.Continue
            THEN [ret |-> FALSE, log |-> r.log, path |-> "class"]
            ELSE callsOfBaseMethods(Tail(BaseMethodSyms), ClassSyms, r.log, stopAt)

\* foreachSymbolCallOccurrence from the choice of RelationToUse on: the
\* search for the dynamic callers.
dynamicCallers_NoEmptyCheck(Callee, log, stopAt) ==
  LET Sym == Callee.sym
      clsSyms == receiverClasses(Callee)
  IN IF clsSyms # << >> /\ takesProtocolPath(clsSyms)
       THEN callsOfOverrides(getAllRelatedOccursImpl(Sym, {"RelationOverrideOf"}, << >>),
                             log, stopAt)
     ELSE callsOfBaseMethods(getBaseMethodsOrClasses(Sym),
                             collectClassSyms(clsSyms, << >>), log, stopAt)

dynamicCallers(Callee, log, stopAt) ==
  LET Sym == Callee.sym
      clsSyms == receiverClasses(Callee)
  IN IF clsSyms = << >> THEN [ret |-> TRUE, log |-> log, path |-> "noReceiver"]
     ELSE IF takesProtocolPath(clsSyms)
       THEN callsOfOverrides(getAllRelatedOccursImpl(Sym, {"RelationOverrideOf"}, << >>),
                             log, stopAt)
     ELSE callsOfBaseMethods(getBaseMethodsOrClasses(Sym),
                             collectClassSyms(clsSyms, << >>), log, stopAt)

foreachSymbolCallOccurrence_NoDynamicReturn(Callee, stopAt) ==
  IF ~isCallable(Callee.sym) THEN [ret |-> FALSE, log |-> << >>, path |-> "notCallable"]
  ELSE LET d == foreachSymbolOccurrenceByUSR(Callee.sym, {"Call"}, << >>, stopAt)
       IN IF ~d.Continue THEN [ret |-> FALSE, log |-> d.log, path |-> "direct"]
          ELSE dynamicCallers(Callee, d.log, stopAt)

foreachSymbolCallOccurrence_NoCallableCheck(Callee, stopAt) ==
  LET d == foreachSymbolOccurrenceByUSR(Callee.sym, {"Call"}, << >>, stopAt)
  IN IF ~d.Continue THEN [ret |-> FALSE, log |-> d.log, path |-> "direct"]
     ELSE IF ~ContainsAny(Callee.roles, {"Dynamic"})
       THEN [ret |-> TRUE, log |-> d.log, path |-> "static"]
     ELSE dynamicCallers(Callee, d.log, stopAt)

foreachSymbolCallOccurrence_NoStopCheck(Callee, stopAt) ==
  IF ~isCallable(Callee.sym) THEN [ret |-> FALSE, log |-> << >>, path |-> "notCallable"]
  ELSE LET d == foreachSymbolOccurrenceByUSR(Callee.sym, {"Call"}, << >>, stopAt)
       IN IF ~ContainsAny(Callee.roles, {"Dynamic"})
            THEN [ret |-> TRUE, log |-> d.log, path |-> "static"]
          ELSE dynamicCallers(Callee, d.log, stopAt)

foreachSymbolCallOccurrence(Callee, stopAt) ==
  IF ~isCallable(Callee.sym) THEN [ret |-> FALSE, log |-> << >>, path |-> "notCallable"]
  ELSE LET d == foreachSymbolOccurrenceByUSR(Callee.sym, {"Call"}, << >>, stopAt)
       IN IF ~d.Continue THEN [ret |-> FALSE, log |-> d.log, path |-> "direct"]
          ELSE IF ~ContainsAny(Callee.roles, {"Dynamic"})
            THEN [ret |-> TRUE, log |-> d.log, path |-> "static"]
          ELSE dynamicCallers(Callee, d.log, stopAt)

NoQuery == [op |-> "none"]

\* A unit's occurrence comes into the index, no query being under way.
Ingest ==
  /\ query = NoQuery
  /\ Cardinality(occs) < MaxOccs
  /\ \E i \in 1..Len(Pool) :
       /\ ~(i \in occs)
       /\ occs' = occs \cup {i}
  /\ query' = NoQuery
  /\ UNCHANGED pathFacts
  /\ UNCHANGED << delegateVars, threadVars, pathVars, createVars >>

\* A caller calls foreachSymbolCallOccurrence with an occurrence it holds and
\* a receiver.
QueryCalls ==
  /\ query = NoQuery
  /\ \E Callee \in CalleePool \cup {Pool[i] : i \in occs}, stopAt \in 0..MaxStop :
       query' = [op |-> "foreachSymbolCallOccurrence", Callee |-> Callee,
                 stopAt |-> stopAt, res |-> foreachSymbolCallOccurrence(Callee, stopAt)]
  /\ UNCHANGED << occs, pathFacts >>
  /\ UNCHANGED << delegateVars, threadVars, pathVars, createVars >>

\* The caller is done with the result of its query.
QueryDone ==
  /\ query # NoQuery
  /\ query' = NoQuery
  /\ UNCHANGED << occs, pathFacts >>
  /\ UNCHANGED << delegateVars, threadVars, pathVars, createVars >>

\* The symbols a caller can ask about.
Symbols == {"m", "m1", "m2", "D", "B", "U", "P", "E"}

\* A caller calls getBaseMethodsOrClasses with a symbol.
QueryBases ==
  /\ query = NoQuery
  /\ \E Sym \in Symbols :
       query' = [op |-> "getBaseMethodsOrClasses", Sym |-> Sym,
                 res |-> getBaseMethodsOrClasses(Sym)]
  /\ UNCHANGED << occs, pathFacts >>
  /\ UNCHANGED << delegateVars, threadVars, pathVars, createVars >>

\* A caller calls foreachSymbolCallOccurrence with a dynamic occurrence of a
\* callable symbol whose receivers are classes, and a receiver that never
\* stops: the call fills its local ClassSyms, here kept beside the result.
QueryClassSyms ==
  /\ query = NoQuery
  /\ \E Callee \in CalleePool \cup {Pool[i] : i \in occs} :
       LET clsSyms == receiverClasses(Callee)
       IN /\ isCallable(Callee.sym)
          /\ ContainsAny(Callee.roles, {"Dynamic"})
          /\ clsSyms # << >>
          /\ ~takesProtocolPath(clsSyms)
          /\ query' = [op |-> "ClassSyms", Callee |-> Callee, clsSyms |-> clsSyms,
                       ClassSyms |-> collectClassSyms(clsSyms, << >>),
                       res |-> foreachSymbolCallOccurrence(Callee, 0)]
  /\ UNCHANGED << occs, pathFacts >>
  /\ UNCHANGED << delegateVars, threadVars, pathVars, createVars >>

----------------------------------------------------------------------------
(* The FilePathIndex and the queries keyed by a path.  A path is the        *)
(* sequence of its components; a query's result is [ret, log, asked]: what  *)
(* it returns, the facts its receiver was called with, and the path the     *)
(* FilePathIndex was asked about.                                           *)

RECURSIVE Normalize(_, _)
Normalize(rest, acc) ==
  IF rest = << >> THEN acc
  ELSE IF Head(rest) = "." THEN Normalize(Tail(rest), acc)
  ELSE IF Head(rest) = ".."
    THEN Normalize(Tail(rest), IF acc = << >> THEN acc ELSE SubSeq(acc, 1, Len(acc) - 1))
  ELSE Normalize(Tail(rest), Append(acc, Head(rest)))

\* FilePathIndex::getCanonicalPath: the path without its "." components and
\* with each ".." resolved against the component before it.
getCanonicalPath(Path) == Normalize(Path, << >>)

\* The spellings callers pass: of a/f.c, a/h.h and b/g.h, and of a file no
\* unit has.
Spellings ==
  { << "a", "f.c" >>, << "a", ".", "f.c" >>, << "b", "..", "a", "f.c" >>,
    << "a", "h.h" >>, << "a", "..", "a", "h.h" >>,
    << "b", "g.h" >>, << ".", "b", "g.h" >>,
    << "z.c" >>, << "a", "..", "z.c" >> }

UnitFact(id, unit, file) == [id |-> id, kind |-> "unit", unit |-> unit, file |-> file]

IncludeFact(id, source, target, line) ==
  [id |-> id, kind |-> "include", source |-> source, target |-> target, line |-> line]

\* The facts units can bring into the FilePathIndex, which keeps them under
\* canonical paths, in the order in which it enumerates them.
PathPool ==
  << UnitFact(1, "u1", << "a", "f.c" >>),
     UnitFact(2, "u2", << "a", "f.c" >>),
     UnitFact(3, "u1", << "a", "h.h" >>),
     IncludeFact(4, << "a", "f.c" >>, << "a", "h.h" >>, 1),
     IncludeFact(5, << "a", "f.c" >>, << "b", "g.h" >>, 2),
     IncludeFact(6, << "a", "h.h" >>, << "b", "g.h" >>, 3),
     UnitFact(7, "u3", << "b", "g.h" >>),
     IncludeFact(8, << "b", "g.h" >>, << "a", "h.h" >>, 4) >>

PathIndexSeq ==
  LET ids == SelectSeq([i \in 1..Len(PathPool) |-> i], LAMBDA i : i \in pathFacts)
  IN [k \in 1..Len(ids) |-> PathPool[ids[k]]]

\* FilePathIndex::isKnownFile
PathIndexIsKnownFile(canonPath) ==
  \E k \in 1..Len(PathIndexSeq) :
    PathIndexSeq[k].kind = "unit" /\ PathIndexSeq[k].file = canonPath

\* What FilePathIndex::foreachMainUnitContainingFile enumerates.
MainUnitsContainingFile(canonPath) ==
  SelectSeq(PathIndexSeq, LAMBDA f : f.kind = "unit" /\ f.file = canonPath)

\* What FilePathIndex::foreachFileIncludingFile enumerates.
FilesIncludingFile(canonTargetPath) ==
  SelectSeq(PathIndexSeq, LAMBDA f : f.kind = "include" /\ f.target = canonTargetPath)

\* What FilePathIndex::foreachFileIncludedByFile enumerates.
FilesIncludedByFile(canonSourcePath) ==
  SelectSeq(PathIndexSeq, LAMBDA f : f.kind = "include" /\ f.source = canonSourcePath)

\* The FilePathIndex calls the receiver on the facts in turn, until it
\* returns false.
PathEnumerate(fs, canonPath, stopAt) ==
  LET r == Enumerate(fs, [log |-> << >>, Continue |-> TRUE], stopAt)
  IN [ret |-> r.Continue, log |-> r.log, asked |-> canonPath]

isKnownFile_Raw(filePath) ==
  [ret |-> PathIndexIsKnownFile(filePath), log |-> << >>, asked |-> filePath]

isKnownFile(filePath) ==
  LET canonPath == getCanonicalPath(filePath)
  IN [ret |-> PathIndexIsKnownFile(canonPath), log |-> << >>, asked |-> canonPath]

foreachMainUnitContainingFile(filePath, stopAt) ==
  LET canonPath == getCanonicalPath(filePath)
  IN PathEnumerate(MainUnitsContainingFile(canonPath), canonPath, stopAt)

foreachFileIncludingFile(TargetPath, stopAt) ==
  LET canonTargetPath == getCanonicalPath(TargetPath)
  IN PathEnumerate(FilesIncludingFile(canonTargetPath), canonTargetPath, stopAt)

foreachFileIncludedByFile(SourcePath, stopAt) ==
  LET canonSourcePath == getCanonicalPath(SourcePath)
  IN PathEnumerate(FilesIncludedByFile(canonSourcePath), canonSourcePath, stopAt)

PathOps ==
  {"isKnownFile", "foreachMainUnitContainingFile",
   "foreachFileIncludingFile", "foreachFileIncludedByFile"}

PathOp(op, path, stopAt) ==
  CASE op = "isKnownFile" -> isKnownFile(path)
    [] op = "foreachMainUnitContainingFile" -> foreachMainUnitContainingFile(path, stopAt)
    [] op = "foreachFileIncludingFile" -> foreachFileIncludingFile(path, stopAt)
    [] op = "foreachFileIncludedByFile" -> foreachFileIncludedByFile(path, stopAt)

\* A unit's fact comes into the FilePathIndex, no query being under way.
IngestPath ==
  /\ query = NoQuery
  /\ \E i \in 1..Len(PathPool) :
       /\ ~(i \in pathFacts)
       /\ pathFacts' = pathFacts \cup {i}
  /\ UNCHANGED << occs, query >>
  /\ UNCHANGED << delegateVars, threadVars, pathVars, createVars >>

\* A caller makes a query keyed by a path, in a spelling of its choice.
QueryPath ==
  /\ query = NoQuery
  /\ \E op \in PathOps, path \in Spellings, stopAt \in 0..MaxStop :
       /\ op = "isKnownFile" => stopAt = 0
       /\ query' = [op |-> op, path |-> path, stopAt |-> stopAt,
                    res |-> PathOp(op, path, stopAt)]
  /\ UNCHANGED << occs, pathFacts >>
  /\ UNCHANGED << delegateVars, threadVars, pathVars, createVars >>

----------------------------------------------------------------------------
(* OutOfDateTriggerHint: a DependentFileOutOfDateTriggerHint holds a file   *)
(* path, a DependentUnitOutOfDateTriggerHint a unit name and the hint it    *)
(* depends on.                                                              *)

\* The longest chain of unit hints of a run.
MaxChain == 3

UnitNames == {"a.o", "b.o", "c.o"}
FilePaths == {"/x.c", "/y.h"}

DependentFileOutOfDateTriggerHint(FilePath) == [kind |-> "file", FilePath |-> FilePath]

DependentUnitOutOfDateTriggerHint(UnitName, DepHint) ==
  [kind |-> "unit", UnitName |-> UnitName, DepHint |-> DepHint]

RECURSIVE originalFileTrigger(_)
RECURSIVE description(_)

fileOriginalFileTrigger(hint) == hint.FilePath

fileDescription(hint) == hint.FilePath

unitOriginalFileTrigger(hint) == originalFileTrigger(hint.DepHint)

unitDescription_Flat(hint) ==
  "unit(" \o hint.UnitName \o ") -> " \o originalFileTrigger(hint.DepHint)

unitDescription(hint) ==
  "unit(" \o hint.UnitName \o ") -> " \o description(hint.DepHint)

\* The virtual calls.
originalFileTrigger(hint) ==
  IF hint.kind = "file" THEN fileOriginalFileTrigger(hint) ELSE unitOriginalFileTrigger(hint)

description(hint) ==
  IF hint.kind = "file" THEN fileDescription(hint) ELSE unitDescription(hint)

\* The hint a unit chain N1..Nn ending in a file gives.
RECURSIVE Chain(_, _)
Chain(names, FilePath) ==
  IF names = << >> THEN DependentFileOutOfDateTriggerHint(FilePath)
  ELSE DependentUnitOutOfDateTriggerHint(Head(names), Chain(Tail(names), FilePath))

ChainNames == UNION {[1..n -> UnitNames] : n \in 0..MaxChain}

\* A delegate asks a hint it was given for its trigger or its description.
QueryHint ==
  /\ query = NoQuery
  /\ \E names \in ChainNames, FilePath \in FilePaths,
        op \in {"originalFileTrigger", "description"} :
       LET hint == Chain(names, FilePath)
       IN query' = [op |-> op, names |-> names, FilePath |-> FilePath, hint |-> hint,
                    res |-> IF op = "description" THEN description(hint)
                            ELSE originalFileTrigger(hint)]
  /\ UNCHANGED << occs, pathFacts >>
  /\ UNCHANGED << delegateVars, threadVars, pathVars, createVars >>

----------------------------------------------------------------------------
(* The closures, step by step.  A walk is [which, Sym, stack, L, calls]:    *)
(* the closure made ("base" for getBaseMethodsOrClassesImpl, "related" for  *)
(* getAllRelatedOccursImpl with RelationOverrideOf), the symbol it was      *)
(* called with, the calls in progress, each with the candidates its         *)
(* enumeration has still to hand to addEntry, the list built so far, and    *)
(* the symbols recursive calls were made with.                              *)

\* The occurrences with relations that closures follow or extensions use.
RelationOccs == {i \in 1..Len(Pool) : Pool[i].rels # << >> /\ ~("Call" \in Pool[i].roles)}

\* What the call's enumeration hands to addEntry: symbols in the base
\* closure, occurrences in the other.
WalkCandidates(which, Sym) ==
  IF which = "base" THEN BaseCandidates(Sym)
  ELSE RelatedOccurrencesByUSR(Sym, {"RelationOverrideOf"})

EntrySym(which, e) == IF which = "base" THEN e ELSE e.sym

WalkContains_FromSecond(which, e, L) ==
  \E i \in 2..Len(L) : EntrySym(which, L[i]) = EntrySym(which, e)

\* addEntry's test.
WalkContains(which, e, L) ==
  IF which = "base" THEN containsSymWithUSR(e, L) ELSE containsOccurWithUSR(e.sym, L)

WalkFrame(which, Sym) == [Sym |-> Sym, todo |-> WalkCandidates(which, Sym)]

IsWalk == query.op = "closure"

\* A caller calls one of the closures with a symbol and an empty list.
WalkStart ==
  /\ query = NoQuery
  /\ \E which \in {"base", "related"}, Sym \in Symbols :
       query' = [op |-> "closure", which |-> which, Sym |-> Sym,
                 stack |-> << WalkFrame(which, Sym) >>, L |-> << >>, calls |-> << >>]
  /\ UNCHANGED << occs, pathFacts >>
  /\ UNCHANGED << delegateVars, threadVars, pathVars, createVars >>

\* The innermost call goes on: its enumeration is over and it returns, or it
\* hands the next candidate to addEntry, which appends it and recurses when
\* the list does not hold it.
WalkStep ==
  /\ IsWalk
  /\ query.stack # << >>
  /\ LET n == Len(query.stack)
         top == query.stack[n]
     IN IF top.todo = << >>
          THEN query' = [query EXCEPT !.stack = SubSeq(query.stack, 1, n - 1)]
          ELSE LET e == Head(top.todo)
                   rest == [query.stack EXCEPT ![n].todo = Tail(top.todo)]
               IN IF ~WalkContains(query.which, e, query.L)
                    THEN query' =
                           [query EXCEPT
                              !.L = Append(query.L, e),
                              !.calls = Append(query.calls, EntrySym(query.which, e)),
                              !.stack = Append(rest,
                                          WalkFrame(query.which, EntrySym(query.which, e)))]
                    ELSE query' = [query EXCEPT !.stack = rest]
  /\ UNCHANGED << occs, pathFacts >>
  /\ UNCHANGED << delegateVars, threadVars, pathVars, createVars >>

\* The outermost call has returned: the caller has the list.
WalkReturn ==
  /\ IsWalk
  /\ query.stack = << >>
  /\ query' = NoQuery
  /\ UNCHANGED << occs, pathFacts >>
  /\ UNCHANGED << delegateVars, threadVars, pathVars, createVars >>

----------------------------------------------------------------------------
(* Specifications *)

InitThreads ==
  /\ pc = [t \in Threads |-> "idle"]
  /\ cur = [t \in Threads |-> NoOp]
  /\ ip = [t \in Threads |-> 1]
  /\ trace = [t \in Threads |-> << >>]
  /\ snap = [t \in Threads |-> 0]

InitDelegate ==
  /\ Queue = << >>
  /\ running = NoTask
  /\ userLog = << >>
  /\ finished = {}
  /\ handed = << >>
  /\ nextId = 1
  /\ failed = {}

InitPaths ==
  /\ visPaths = {}
  /\ dsPaths = {}

InitCreate ==
  /\ initPc = "idle"
  /\ initArgs = [Delegate |-> FALSE, useExplicitOutputUnits |-> FALSE, readonly |-> FALSE]
  /\ Error = ""
  /\ Impl = [Err |-> FALSE, members |-> NullImpl, EC |-> "none"]
  /\ Index = "none"

InitCall ==
  /\ occs = {}
  /\ pathFacts = {}
  /\ query = NoQuery

\* The asynchronous delegate, its reporters and a thread that drains.
Init ==
  /\ Other \in BOOLEAN
  /\ InitDelegate
  /\ InitThreads
  /\ InitPaths
  /\ InitCreate
  /\ InitCall

Next ==
  \/ \E t \in Threads : CallEvent(t)
  \/ \E t \in Threads : InlineReturn(t)
  \/ \E t \in Threads : CallDrain(t)
  \/ \E t \in Threads : StepBegin(t)
  \/ \E t \in Threads : StepEnd(t)
  \/ WorkerStart
  \/ WorkerFinish

Spec == Init /\ [][Next]_vars

\* pollForUnitChangesAndWait, with the datastore reporting events during its
\* poll and one more reporter.
NextPoll ==
  \/ CallEvent("r1")
  \/ InlineReturn("r1")
  \/ \E t \in Threads : CallPoll(t)
  \/ \E t \in Threads : StepBegin(t)
  \/ \E t \in Threads : StepEnd(t)
  \/ \E t \in Threads : PollEmit(t)
  \/ WorkerStart
  \/ WorkerFinish

SpecPoll == Init /\ [][NextPoll]_vars

\* addUnitOutFilePaths and removeUnitOutFilePaths called from several threads.
InitFwd ==
  /\ Other = TRUE
  /\ InitDelegate
  /\ InitThreads
  /\ InitPaths
  /\ InitCreate
  /\ InitCall

NextFwd ==
  \/ \E t \in Threads : CallPaths(t)
  \/ \E t \in Threads : StepBegin(t)
  \/ \E t \in Threads : StepEnd(t)

SpecFwd == InitFwd /\ [][NextFwd]_vars

\* The construction of the facade.
NextCreate ==
  \/ CallCreate
  \/ InitStart
  \/ InitDatabase
  \/ InitLibrary
  \/ InitDirectories
  \/ InitStore
  \/ InitCollaborators
  \/ CreateReturn
  \/ Release

SpecCreate == InitFwd /\ [][NextCreate]_vars

\* The index filling up, and the call-resolution queries on it.
NextCall ==
  \/ Ingest
  \/ QueryCalls
  \/ QueryDone

SpecCall == InitFwd /\ [][NextCall]_vars

\* getBaseMethodsOrClasses on an index that units fill.
NextBases ==
  \/ Ingest
  \/ QueryBases
  \/ QueryClassSyms
  \/ QueryDone

SpecBases == InitFwd /\ [][NextBases]_vars

\* The queries keyed by a path, on a FilePathIndex that units fill.
NextPath ==
  \/ IngestPath
  \/ QueryPath
  \/ QueryDone

SpecPath == InitFwd /\ [][NextPath]_vars

\* The asynchronous delegate with a user delegate whose callbacks can fail.
NextFail ==
  \/ \E t \in Threads : CallEvent(t)
  \/ \E t \in Threads : InlineReturn(t)
  \/ WorkerStart
  \/ WorkerFinish
  \/ WorkerFail

SpecFail == InitFwd /\ [][NextFail]_vars

\* The hints' operations, on chains of every length up to MaxChain.
NextHint ==
  \/ QueryHint
  \/ QueryDone

SpecHint == InitFwd /\ [][NextHint]_vars

\* The closures step by step, on every index of relation occurrences.  A
\* call in progress goes on: nothing but its own steps can hold it.
InitWalk ==
  /\ Other = TRUE
  /\ InitDelegate
  /\ InitThreads
  /\ InitPaths
  /\ InitCreate
  /\ occs \in SUBSET RelationOccs
  /\ pathFacts = {}
  /\ query = NoQuery

NextWalk ==
  \/ WalkStart
  \/ WalkStep
  \/ WalkReturn

SpecWalk == InitWalk /\ [][NextWalk]_vars /\ WF_vars(WalkStep) /\ WF_vars(WalkReturn)


----------------------------------------------------------------------------
(* Properties of the asynchronous delegate *)

\* The method and payload of each entry of a sequence of events.
Events(s) == [i \in 1..Len(s) |-> [method |-> s[i].method, arg |-> s[i].arg]]

\* The user delegate calls made for queued events, and the events still in
\* the queue.
AsyncCalls == SelectSeq(userLog, LAMBDA e : ~e.synchronous)
QueuedEvents == SelectSeq(Queue, LAMBDA k : k.type = "event")

\* C1: with a user delegate present, the asynchronous events reach the user
\* delegate in the order in which they were handed to the AsyncIndexDelegate:
\* the calls the user delegate has received for them, followed by the events
\* still queued, are at every moment exactly the events handed in, in that
\* order, so none is lost, duplicated, altered or reordered.
C1_FifoDelivery ==
  Other => Events(AsyncCalls) \o Events(QueuedEvents) = Events(handed)

\* Three events of three different methods, handed in by two threads, have
\* all been delivered.
C1_Witness ==
  /\ Other
  /\ Len(handed) = 3
  /\ Cardinality({handed[i].method : i \in 1..Len(handed)}) = 3
  /\ Cardinality({handed[i].by : i \in 1..Len(handed)}) = 2
  /\ Len(AsyncCalls) = 3
  /\ finished = {1, 2, 3}

\* C2: a call of unitIsOutOfDate that has returned, with a user delegate
\* present: if synchronous, the user delegate's unitIsOutOfDate was called on
\* the calling thread and has returned; if not, the user delegate was not
\* called on the calling thread: the event is in the queue or with the worker.
C2_SyncInlineAsyncQueued ==
  \A t \in Threads :
    (Other /\ pc[t] = "ret" /\ cur[t].op = "unitIsOutOfDate") =>
      IF cur[t].synchronous
        THEN /\ [method |-> "unitIsOutOfDate", arg |-> cur[t].arg,
                 synchronous |-> TRUE, thread |-> t] \in Range(userLog)
             /\ cur[t].arg \in finished
        ELSE /\ \A i \in 1..Len(userLog) :
                  userLog[i].arg = cur[t].arg => userLog[i].thread = "worker"
             /\ \/ \E i \in 1..Len(Queue) :
                     Queue[i] = Closure("unitIsOutOfDate", cur[t].arg, FALSE)
                \/ \E i \in 1..Len(userLog) : userLog[i].arg = cur[t].arg

\* One thread has returned from a synchronous call whose callback has
\* returned, while another has returned from an asynchronous call whose
\* callback has not started.
C2_Witness ==
  /\ Other
  /\ \E t, u \in Threads :
       /\ pc[t] = "ret" /\ cur[t].op = "unitIsOutOfDate" /\ cur[t].synchronous
       /\ cur[t].arg \in finished
       /\ pc[u] = "ret" /\ cur[u].op = "unitIsOutOfDate" /\ ~cur[u].synchronous
       /\ \A i \in 1..Len(userLog) : userLog[i].arg # cur[u].arg

\* C7: when _wait has returned, the user delegate's callback of every event
\* handed in before _wait was called has returned.
C7_DrainBarrier ==
  \A t \in Threads :
    (pc[t] = "ret" /\ cur[t].op = "_wait") =>
      \A i \in 1..snap[t] : handed[i].arg \in finished

\* _wait has returned with two events handed in before its call, and an event
\* handed in after it is still to be delivered.
C7_Witness ==
  \E t \in Threads :
    /\ pc[t] = "ret" /\ cur[t].op = "_wait"
    /\ snap[t] = 2
    /\ Len(handed) = 3
    /\ ~(handed[3].arg \in finished)

PollSteps ==
  << [step |-> [callee |-> "IndexStore", op |-> "pollForUnitChangesAndWait"], ev |-> "call"],
     [step |-> [callee |-> "IndexStore", op |-> "pollForUnitChangesAndWait"], ev |-> "ret"],
     [step |-> [callee |-> "DelegateWrap", op |-> "_wait"], ev |-> "call"],
     [step |-> [callee |-> "DelegateWrap", op |-> "_wait"], ev |-> "ret"] >>

IsPrefix(s, u) == Len(s) <= Len(u) /\ s = SubSeq(u, 1, Len(s))

\* C8: pollForUnitChangesAndWait calls _wait only after the datastore's poll
\* has returned and returns only after _wait has: when it has returned, the
\* callback of every event handed in before the poll returned has returned.
C8_PollThenDrain ==
  \A t \in Threads :
    cur[t].op = "pollForUnitChangesAndWait" =>
      /\ IsPrefix(trace[t], PollSteps)
      /\ pc[t] = "ret" =>
           /\ trace[t] = PollSteps
           /\ \A i \in 1..snap[t] : handed[i].arg \in finished

\* The operation has returned after the datastore reported two events during
\* its poll.
C8_Witness ==
  \E t \in Threads :
    /\ pc[t] = "ret" /\ cur[t].op = "pollForUnitChangesAndWait"
    /\ Cardinality({i \in 1..snap[t] : handed[i].by = t}) >= 2

\* C10: without a user delegate the event operations enqueue nothing and
\* call nothing: no event is in the queue or with the worker, no thread is
\* in a callback, the user delegate's log is empty, and as long as nobody
\* drains the queue is empty.
C10_NoDelegateNoOp ==
  ~Other =>
    /\ QueuedEvents = << >>
    /\ running.type # "event"
    /\ userLog = << >>
    /\ \A t \in Threads : pc[t] # "inline"
    /\ (\A t \in Testers : pc[t] = "idle") => (Queue = << >> /\ running = NoTask)

\* Without a user delegate, all the run's events have been reported, the last
\* a synchronous unitIsOutOfDate, and nobody has drained.
C10_Witness ==
  /\ ~Other
  /\ nextId = MaxCalls + 1
  /\ \A t \in Testers : pc[t] = "idle"
  /\ \E t \in Threads :
       pc[t] = "ret" /\ cur[t].op = "unitIsOutOfDate" /\ cur[t].synchronous
  /\ \E t \in Threads : pc[t] = "ret" /\ cur[t].op = "processedStoreUnit"

----------------------------------------------------------------------------
(* Properties of the forwarding methods *)

ExpectedPathCalls(c) ==
  << [step |-> [callee |-> "VisibilityChecker", op |-> c.op, filePaths |-> c.filePaths],
      ev |-> "call"],
     [step |-> [callee |-> "VisibilityChecker", op |-> c.op, filePaths |-> c.filePaths],
      ev |-> "ret"],
     [step |-> [callee |-> "IndexStore", op |-> c.op, filePaths |-> c.filePaths,
                waitForProcessing |-> c.waitForProcessing],
      ev |-> "call"],
     [step |-> [callee |-> "IndexStore", op |-> c.op, filePaths |-> c.filePaths,
                waitForProcessing |-> c.waitForProcessing],
      ev |-> "ret"] >>

\* C9: in a call of addUnitOutFilePaths or removeUnitOutFilePaths, the
\* collaborator calls made so far are the start of: the FileVisibilityChecker's
\* operation called with the paths, its return, the IndexDatastore's
\* operation called with the paths and waitForProcessing, its return; and
\* when the call has returned they are exactly these, each made once.
C9_VisibilityBeforeDatastore ==
  \A t \in Threads :
    cur[t].op \in {"addUnitOutFilePaths", "removeUnitOutFilePaths"} =>
      /\ IsPrefix(trace[t], ExpectedPathCalls(cur[t]))
      /\ pc[t] = "ret" => trace[t] = ExpectedPathCalls(cur[t])

\* Two callers have returned, one from an add that waits for processing, one
\* from a remove that does not.
C9_Witness ==
  \E t, u \in Threads :
    /\ pc[t] = "ret" /\ cur[t].op = "addUnitOutFilePaths" /\ cur[t].waitForProcessing
    /\ pc[u] = "ret" /\ cur[u].op = "removeUnitOutFilePaths" /\ ~cur[u].waitForProcessing
    /\ Len(trace[t]) = 4 /\ Len(trace[u]) = 4


----------------------------------------------------------------------------
(* Properties of the construction *)

AllConstructed(I) ==
  /\ I.DelegateWrap
  /\ I.VisibilityChecker
  /\ I.SymIndex
  /\ I.PathIndex
  /\ I.IndexStore

\* C6: whichever construction steps succeed or fail, when create has
\* returned it returned either a facade all of whose collaborators are
\* constructed, or no handle with the error string written.
C6_AllOrNothing ==
  initPc = "done" =>
    \/ Index = "facade" /\ AllConstructed(Impl.members)
    \/ Index = "null" /\ Error # "" /\ Impl.members = NullImpl

\* create returned no handle after the index store failed to open, the
\* database and the library being there.
C6_Witness ==
  /\ initPc = "done"
  /\ Index = "null"
  /\ Error = "could not open index store"
  /\ ~initArgs.readonly


----------------------------------------------------------------------------
(* Properties of foreachSymbolCallOccurrence *)

IsCallQuery == query.op = "foreachSymbolCallOccurrence"

Ids(os) == [k \in 1..Len(os) |-> os[k].id]

Min(a, b) == IF a <= b THEN a ELSE b

\* What a receiver that returns false on its call number k gets of the
\* occurrences a receiver that always returns true would get.
UpTo(ids, k) == IF k = 0 THEN ids ELSE SubSeq(ids, 1, Min(k, Len(ids)))

\* C3: on every path, once the caller's receiver has returned false on its
\* k-th call it is not called again, and the operation returns false.
C3_ReceiverStops ==
  (IsCallQuery /\ query.stopAt > 0 /\ Len(query.res.log) >= query.stopAt) =>
    /\ Len(query.res.log) = query.stopAt
    /\ query.res.ret = FALSE

\* The receiver's second call, on which it returned false, was made on the
\* class-hierarchy path, after one direct call site, and a receiver that
\* goes on would have been called a third time.
C3_Witness ==
  /\ IsCallQuery
  /\ query.stopAt = 2
  /\ query.res.path = "class"
  /\ Len(query.res.log) = 2
  /\ ~query.res.ret
  /\ Len(OccurrencesByUSR(query.Callee.sym, {"Call"})) = 1
  /\ Len(foreachSymbolCallOccurrence(query.Callee, 0).log) >= 3

\* The occurrences the class-hierarchy path is to pass on, as the claim
\* states them: of the Call occurrences of the methods of BaseMethodSyms, in
\* order, those with role Dynamic that have no RelationReceivedBy role or a
\* RelationReceivedBy-related symbol in ClassSyms.
Admitted(Occur, ClassSyms) ==
  /\ "Dynamic" \in Occur.roles
  /\ \/ ~("RelationReceivedBy" \in Occur.roles)
     \/ \E i \in 1..Len(Occur.rels) :
          /\ "RelationReceivedBy" \in Occur.rels[i].roles
          /\ Occur.rels[i].sym \in Range(ClassSyms)

ClassPathExpected(Callee) ==
  LET ClassSyms == collectClassSyms(receiverClasses(Callee), << >>)
      BaseMethodSyms == getBaseMethodsOrClasses(Callee.sym)
      calls == Flatten([k \in 1..Len(BaseMethodSyms) |->
                          OccurrencesByUSR(BaseMethodSyms[k], {"Call"})])
  IN Ids(OccurrencesByUSR(Callee.sym, {"Call"}))
       \o Ids(SelectSeq(calls, LAMBDA o : Admitted(o, ClassSyms)))

\* C4: on the class-hierarchy path the receiver gets, after the direct call
\* sites, exactly the admitted Call occurrences of the methods of
\* BaseMethodSyms, in order (up to the call on which it returns false); the
\* others are skipped without ending the enumeration.
C4_ClassPathFilter ==
  (IsCallQuery /\ query.res.path = "class") =>
    /\ query.res.log = UpTo(ClassPathExpected(query.Callee), query.stopAt)
    /\ query.stopAt = 0 => query.res.ret

\* A receiver that always returns true got a call of a base method's base
\* method received by a base class of the callee's class, after a call of
\* the base method received by an unrelated class was skipped.
C4_Witness ==
  /\ IsCallQuery
  /\ query.res.path = "class"
  /\ query.stopAt = 0
  /\ {1, 2, 5, 12, 15} \subseteq occs
  /\ query.Callee.id = 103
  /\ query.res.log = << 15 >>

\* The symbols that override Sym, directly or through other overriders.
Overriders(S) ==
  {Pool[i].sym : i \in {j \in occs :
     \E k \in 1..Len(Pool[j].rels) :
       /\ "RelationOverrideOf" \in Pool[j].rels[k].roles
       /\ Pool[j].rels[k].sym \in S}}

RECURSIVE OverrideClosure(_)
OverrideClosure(S) ==
  IF Overriders(S) \subseteq S THEN S ELSE OverrideClosure(S \cup Overriders(S))

ProtocolCase(Callee) ==
  /\ isCallable(Callee.sym)
  /\ "Dynamic" \in Callee.roles
  /\ receiverClasses(Callee) # << >>
  /\ Kind(receiverClasses(Callee)[1]) = "Protocol"

\* C5: for a callable, dynamic callee whose first receiver class (after the
\* replacement of extensions) is a protocol, whatever the others are, a
\* receiver that always returns true gets the Call occurrences of the callee's
\* symbol, then all the Call occurrences of each symbol of the transitive
\* RelationOverrideOf closure of the callee's symbol, each symbol once; and
\* the operation returns true.
C5_ProtocolFanOut ==
  (IsCallQuery /\ query.stopAt = 0 /\ ProtocolCase(query.Callee)) =>
    LET overrideSyms == getAllRelatedOccursImpl(query.Callee.sym, {"RelationOverrideOf"}, << >>)
        syms == [k \in 1..Len(overrideSyms) |-> overrideSyms[k].sym]
    IN /\ Range(syms) = OverrideClosure(Overriders({query.Callee.sym}))
       /\ Cardinality(Range(syms)) = Len(syms)
       /\ query.res.log =
            Ids(OccurrencesByUSR(query.Callee.sym, {"Call"}))
              \o Flatten([k \in 1..Len(syms) |-> Ids(OccurrencesByUSR(syms[k], {"Call"}))])
       /\ query.res.ret = TRUE

\* The callee is received by a protocol and then a class; the receiver got
\* the direct call site, then a non-dynamic call of a direct overrider and a
\* call of an overrider of that one.
C5_Witness ==
  /\ IsCallQuery
  /\ query.stopAt = 0
  /\ query.Callee.id = 106
  /\ occs = {3, 4, 9, 13, 14}
  /\ query.res.log = << 9, 13, 14 >>
  /\ query.res.ret


----------------------------------------------------------------------------
(* Properties of the asynchronous delegate, continued *)

\* The task the worker is in is a user delegate callback that has not
\* returned.
InCallback == running # NoTask /\ running.type = "event"

\* C11: an asynchronous event operation never waits for the user delegate.
\* In every state, whatever the worker is doing, a reporter that is in no
\* call can make one, and a reporter's asynchronous call has returned: it is
\* never held in a user delegate callback.
C11_EnqueueNeverWaits ==
  \A t \in Reporters :
    /\ (Free(t) /\ nextId <= MaxCalls) => ENABLED CallEvent(t)
    /\ (cur[t] # NoOp /\ ~cur[t].synchronous) => pc[t] = "ret"

\* The worker is inside the callback of an event, which has not returned,
\* and a reporter has the return of a later asynchronous call, whose event
\* waits in the queue.
C11_Witness ==
  /\ Other
  /\ InCallback
  /\ ~(running.arg \in finished)
  /\ \E t \in Reporters :
       /\ pc[t] = "ret"
       /\ ~cur[t].synchronous
       /\ cur[t].arg > running.arg
       /\ \E i \in 1..Len(Queue) : Queue[i].type = "event" /\ Queue[i].arg = cur[t].arg

----------------------------------------------------------------------------
(* Properties of getBaseMethodsOrClasses *)

IsBasesQuery == query.op = "getBaseMethodsOrClasses"

\* C12: the list getBaseMethodsOrClasses returns holds no symbol twice,
\* whatever the relation graph (symbols are their USRs).
C12_NoDuplicateUSR ==
  IsBasesQuery =>
    \A i, j \in 1..Len(query.res) : i # j => query.res[i] # query.res[j]

\* The overrides form cycles through m, m1 and m2: m1 was a candidate three
\* times and was added once.
C12_Witness ==
  /\ IsBasesQuery
  /\ {1, 2, 3, 4} \subseteq occs
  /\ query.Sym = "m"
  /\ query.res = << "m1", "m2", "m" >>

\* C13: the list getBaseMethodsOrClasses returns for a symbol does not hold
\* that symbol, also when the symbol is reachable from itself through
\* override or base relations.
C13_NotItself ==
  IsBasesQuery => \A i \in 1..Len(query.res) : query.res[i] # query.Sym

----------------------------------------------------------------------------
(* Properties of foreachSymbolCallOccurrence, continued *)

\* The occurrences of the index with a relation of the role to the symbol.
RelatedIds(role, USR) ==
  {i \in occs : \E k \in 1..Len(Pool[i].rels) :
     role \in Pool[i].rels[k].roles /\ Pool[i].rels[k].sym = USR}

\* The type an extension extends: the symbol of the first occurrence related
\* to it by RelationExtendedBy; a symbol that is no extension, or has no such
\* occurrence, stands for itself.
ExtendedType(s) ==
  LET ids == RelatedIds("RelationExtendedBy", s)
  IN IF Kind(s) = "Extension" /\ ids # {}
       THEN Pool[CHOOSE i \in ids : \A j \in ids : i <= j].sym
       ELSE s

\* The base classes of the classes of S, and S closed under them.
BasesOf(S) == {Pool[i].sym : i \in UNION {RelatedIds("RelationBaseOf", s) : s \in S}}

RECURSIVE BaseClosure(_)
BaseClosure(S) == IF BasesOf(S) \subseteq S THEN S ELSE BaseClosure(S \cup BasesOf(S))

AdmittedIn(Occur, ClassSet) ==
  /\ "Dynamic" \in Occur.roles
  /\ \/ ~("RelationReceivedBy" \in Occur.roles)
     \/ \E i \in 1..Len(Occur.rels) :
          /\ "RelationReceivedBy" \in Occur.rels[i].roles
          /\ Occur.rels[i].sym \in ClassSet

\* The receiver set C of a callee, as the relations of the occurrence give it.
ReceiverSet(Callee) ==
  LET role == IF "Call" \in Callee.roles THEN "RelationReceivedBy" ELSE "RelationChildOf"
  IN SelectSeq(Callee.rels, LAMBDA r : role \in r.roles)

\* C14: for a callable, dynamic callee with a non-empty receiver set C, every
\* extension in C that has a RelationExtendedBy-related occurrence counts as
\* the symbol of the first such occurrence, and every other element as
\* itself, both in the protocol check (made on the first element) and in
\* ClassSyms: a receiver that always returns true gets, on the class path, the
\* direct calls and then the dynamic calls received by the extended types or
\* their bases, not those received by the extension.
C14_ExtensionRewriting ==
  (/\ IsCallQuery
   /\ query.stopAt = 0
   /\ isCallable(query.Callee.sym)
   /\ "Dynamic" \in query.Callee.roles
   /\ ReceiverSet(query.Callee) # << >>) =>
    LET C == ReceiverSet(query.Callee)
        T == [k \in 1..Len(C) |-> ExtendedType(C[k].sym)]
        ClassSet == BaseClosure(Range(T))
        BaseMethodSyms == getBaseMethodsOrClasses(query.Callee.sym)
        calls == Flatten([k \in 1..Len(BaseMethodSyms) |->
                            OccurrencesByUSR(BaseMethodSyms[k], {"Call"})])
    IN /\ query.res.path \in {"protocol", "class"}
       /\ query.res.path = "protocol" <=> Kind(T[1]) = "Protocol"
       /\ query.res.path = "class" =>
            query.res.log =
              Ids(OccurrencesByUSR(query.Callee.sym, {"Call"}))
                \o Ids(SelectSeq(calls, LAMBDA o : AdmittedIn(o, ClassSet)))

\* The callee is a method of extension E, which two occurrences relate to the
\* types D and P; the first is D's, so the class path is taken and the
\* receiver got the call of the base method m1 received by D.
C14_Witness ==
  /\ IsCallQuery
  /\ query.stopAt = 0
  /\ query.Callee.id = 105
  /\ occs = {1, 7, 8, 11}
  /\ query.res.path = "class"
  /\ query.res.log = << 11 >>

\* The Call occurrences of a symbol in the index, in its order.
CallIdsOf(USR) ==
  LET ids == SelectSeq([i \in 1..Len(Pool) |-> i],
                       LAMBDA i : i \in occs /\ Pool[i].sym = USR /\ "Call" \in Pool[i].roles)
  IN ids

\* C15: for a callable callee without role Dynamic and a receiver that always
\* returns true, the receiver gets exactly the Call occurrences of the
\* callee's symbol, each once and in the index's order; the operation returns
\* true from its check of Dynamic, before any lookup of relations.
C15_StaticCallee ==
  (/\ IsCallQuery
   /\ query.stopAt = 0
   /\ isCallable(query.Callee.sym)
   /\ ~("Dynamic" \in query.Callee.roles)) =>
    /\ query.res.log = CallIdsOf(query.Callee.sym)
    /\ query.res.ret = TRUE
    /\ query.res.path = "static"

\* The callee is a non-dynamic call of m received by D; the index holds two
\* calls of m, which the receiver got, and for m's base method m1 a dynamic
\* call received by D, which it did not get.
C15_Witness ==
  /\ IsCallQuery
  /\ query.stopAt = 0
  /\ query.Callee.id = 112
  /\ occs = {1, 9, 10, 11}
  /\ query.res.log = << 9, 10 >>
  /\ query.res.ret

\* C16: for a callee whose symbol is not callable, whatever its roles and
\* relations, the operation returns false at once: the receiver is not
\* called and no enumeration of the SymbolIndex is made.
C16_NotCallable ==
  (IsCallQuery /\ ~isCallable(query.Callee.sym)) =>
    /\ query.res.ret = FALSE
    /\ query.res.log = << >>
    /\ query.res.path = "notCallable"

\* The callee is an occurrence of the class D with roles Call and Dynamic
\* and a receiver; the index holds occurrences that relate D to a base, a
\* subclass and an extension.
C16_Witness ==
  /\ IsCallQuery
  /\ query.Callee.id = 113
  /\ {5, 6, 7} \subseteq occs
  /\ ~query.res.ret
  /\ query.res.log = << >>

----------------------------------------------------------------------------
(* Properties of the queries keyed by a path *)

IsPathQuery == query.op \in PathOps

\* C17: isKnownFile, foreachMainUnitContainingFile, foreachFileIncludingFile
\* and foreachFileIncludedByFile ask the FilePathIndex about the canonical
\* path only, and for any other spelling of the same canonical path give, in
\* the same index state, the same result and the same receiver calls.
C17_SpellingIndependent ==
  IsPathQuery =>
    /\ query.res.asked = getCanonicalPath(query.path)
    /\ \A p2 \in Spellings :
         getCanonicalPath(p2) = getCanonicalPath(query.path) =>
           /\ PathOp(query.op, p2, query.stopAt).ret = query.res.ret
           /\ PathOp(query.op, p2, query.stopAt).log = query.res.log

\* a/h.h, spelled a/../a/h.h, was asked about: the receiver got its two
\* includers, which the index keeps under a/h.h.
C17_Witness ==
  /\ IsPathQuery
  /\ query.op = "foreachFileIncludingFile"
  /\ query.path = << "a", "..", "a", "h.h" >>
  /\ query.stopAt = 0
  /\ query.res.log = << 4, 8 >>
  /\ query.res.ret

----------------------------------------------------------------------------
(* Properties of the asynchronous delegate: failing callbacks, overlap *)

\* C18: a user delegate callback that fails in the worker does not stop the
\* worker.  Once a callback has failed, the events handed in are still, in
\* order, those the user delegate was called with followed by those queued,
\* and whenever events are queued and the worker is in no task it can take
\* the next one.
C18_FailureDoesNotPoison ==
  failed # {} =>
    /\ Events(AsyncCalls) \o Events(QueuedEvents) = Events(handed)
    /\ (Queue # << >> /\ ~(running.type \in {"event", "sync"})) => ENABLED WorkerStart

\* The callback of the first event failed; the two events handed in after
\* it were delivered, in order, and their callbacks returned.
C18_Witness ==
  /\ failed = {1}
  /\ Len(handed) = 3
  /\ Events(AsyncCalls) = Events(handed)
  /\ finished = {2, 3}

----------------------------------------------------------------------------
(* Properties of OutOfDateTriggerHint *)

IsHintQuery == query.op \in {"originalFileTrigger", "description"}

\* "unit(N1) -> ... -> unit(Nk) -> ", built from the left.
RECURSIVE UnitPrefix(_, _)
UnitPrefix(names, k) ==
  IF k = 0 THEN ""
  ELSE UnitPrefix(names, k - 1) \o "unit(" \o names[k] \o ") -> "

\* C19: for a chain of n >= 0 unit hints N1..Nn ending in a file hint with
\* path P, originalFileTrigger gives P and description gives
\* "unit(N1) -> ... -> unit(Nn) -> P", which is P when n = 0.
C19_HintChain ==
  IsHintQuery =>
    IF query.op = "originalFileTrigger"
      THEN query.res = query.FilePath
      ELSE query.res = UnitPrefix(query.names, Len(query.names)) \o query.FilePath

\* The description of a chain of three unit hints.
C19_Witness ==
  /\ IsHintQuery
  /\ query.op = "description"
  /\ query.names = << "a.o", "b.o", "a.o" >>
  /\ query.res = "unit(a.o) -> unit(b.o) -> unit(a.o) -> /x.c"

\* The user delegate callbacks that have started and not ended.
Executing == {i \in 1..Len(userLog) : ~(userLog[i].arg \in finished \cup failed)}

\* C20 (as stated): in every state at most one user delegate callback is
\* executing.
C20_AtMostOneCallback == Cardinality(Executing) <= 1

\* C20 (amended): in every state at most one user delegate callback of an
\* asynchronous event is executing; the callbacks that unitIsOutOfDate makes
\* inline when synchronous run on their callers' threads, beside it.
C20_AsyncCallbacksSerialized ==
  Cardinality({i \in Executing : ~userLog[i].synchronous}) <= 1

\* The worker is inside the callback of an asynchronous event, after an
\* earlier one has returned, while a reporter is inside the callback of its
\* synchronous unitIsOutOfDate.
C20_Witness ==
  /\ InCallback
  /\ \E t \in Reporters : pc[t] = "inline" /\ cur[t].synchronous
  /\ Cardinality(Executing) = 2
  /\ Cardinality({i \in Executing : ~userLog[i].synchronous}) = 1
  /\ \E i \in 1..Len(userLog) : ~userLog[i].synchronous /\ userLog[i].arg \in finished

----------------------------------------------------------------------------
(* Properties of foreachSymbolCallOccurrence: the empty receiver set *)

\* The callee is callable and dynamic and has no receiver class, and the
\* receiver always returns true.
EmptyReceiverCase ==
  /\ IsCallQuery
  /\ query.stopAt = 0
  /\ isCallable(query.Callee.sym)
  /\ "Dynamic" \in query.Callee.roles
  /\ ReceiverSet(query.Callee) = << >>

\* The Call occurrences of the methods of BaseMethodSyms that are dynamic and
\* have no RelationReceivedBy role: what the class-hierarchy path admits when
\* ClassSyms is empty.
UntypedDynamicCalls(Callee) ==
  LET BaseMethodSyms == getBaseMethodsOrClasses(Callee.sym)
      calls == Flatten([k \in 1..Len(BaseMethodSyms) |->
                          OccurrencesByUSR(BaseMethodSyms[k], {"Call"})])
  IN Ids(SelectSeq(calls, LAMBDA o : AdmittedIn(o, {})))

\* C21 (as stated): with an empty receiver set the class-hierarchy path is
\* taken with ClassSyms empty: after the direct call sites the receiver gets
\* every dynamic Call occurrence without RelationReceivedBy of the methods of
\* BaseMethodSyms.
C21_EmptyTakesClassPath ==
  EmptyReceiverCase =>
    query.res.log = CallIdsOf(query.Callee.sym) \o UntypedDynamicCalls(query.Callee)

\* C21 (amended): with an empty receiver set the operation returns true right
\* after the direct call sites: it takes neither the protocol path nor the
\* class-hierarchy path, and the receiver gets the direct call sites only.
C21_EmptyReturnsAfterDirect ==
  EmptyReceiverCase =>
    /\ query.res.log = CallIdsOf(query.Callee.sym)
    /\ query.res.ret = TRUE
    /\ query.res.path = "noReceiver"

\* The callee is a dynamic call of m with no receiver; m overrides m1, m1
\* overrides m2, and the index holds a dynamic call of m2 with no receiver,
\* which the receiver did not get after the direct call of m.
C21_Witness ==
  /\ EmptyReceiverCase
  /\ query.Callee.id = 102
  /\ occs = {1, 2, 9, 14}
  /\ UntypedDynamicCalls(query.Callee) = << 14 >>
  /\ query.res.log = << 9 >>
  /\ query.res.ret

----------------------------------------------------------------------------
(* Properties of the closures *)

NoRepeat(s) == \A i, j \in 1..Len(s) : i # j => s[i] # s[j]

\* C22: on every relation graph, with or without cycles, a call of
\* getBaseMethodsOrClassesImpl or getAllRelatedOccursImpl returns, and while
\* it runs no symbol is the argument of two recursive calls; the list it
\* leaves is the one the closure is defined to give.
C22_ClosuresTerminate ==
  /\ [](IsWalk => NoRepeat(query.calls))
  /\ []((IsWalk /\ query.stack = << >>) =>
          query.L = IF query.which = "base"
                      THEN getBaseMethodsOrClasses(query.Sym)
                      ELSE getAllRelatedOccursImpl(query.Sym, {"RelationOverrideOf"}, << >>))
  /\ (IsWalk ~> query = NoQuery)

\* The overrides form cycles through m, m1 and m2; the base closure of m
\* has returned after one recursive call for each of m1, m2 and m.
C22_Witness ==
  /\ IsWalk
  /\ query.which = "base"
  /\ query.Sym = "m"
  /\ {1, 2, 3, 4} \subseteq occs
  /\ query.stack = << >>
  /\ query.calls = << "m1", "m2", "m" >>


----------------------------------------------------------------------------
(* The closures as reachability *)

\* The candidate relation: the symbols an instance method's occurrences
\* override, or the symbols of the occurrences that are bases of the symbol.
CandidateSet(s) ==
  IF Kind(s) = "InstanceMethod"
    THEN {Pool[i].rels[k].sym :
            <<i, k>> \in {p \in occs \X (1..2) :
                            /\ Pool[p[1]].sym = s
                            /\ "RelationOverrideOf" \in Pool[p[1]].roles
                            /\ p[2] <= Len(Pool[p[1]].rels)
                            /\ "RelationOverrideOf" \in Pool[p[1]].rels[p[2]].roles}}
    ELSE {Pool[i].sym : i \in RelatedIds("RelationBaseOf", s)}

\* The symbols reachable from the symbols of S in one or more steps.
RECURSIVE ReachableWithin(_, _)
ReachableWithin(S, R) ==
  LET N == R \cup UNION {CandidateSet(s) : s \in S \cup R}
  IN IF N = R THEN R ELSE ReachableWithin(S, N)

Reachable(s) == ReachableWithin({s}, {})

IsClassSymsQuery == query.op = "ClassSyms"

\* C23: as a set, getBaseMethodsOrClasses(Sym) is the symbols reachable from
\* Sym in one or more steps of the candidate relation, and ClassSyms is the
\* receivers together with the symbols reachable from them, although the
\* closures of all the receivers append to the one list.
C23_ClosureIsReachability ==
  /\ IsBasesQuery => Range(query.res) = Reachable(query.Sym)
  /\ IsClassSymsQuery =>
       Range(query.ClassSyms) =
         UNION {{c} \cup Reachable(c) : c \in Range(query.clsSyms)}

\* The receivers are the extension E of D and the class B, each a base of the
\* other: the closure of D brings B and D into the list before D itself is
\* pushed, and the closure of B then finds its one candidate already there.
C23_Witness ==
  /\ IsClassSymsQuery
  /\ {5, 6, 7} \subseteq occs
  /\ query.clsSyms = << "D", "B" >>
  /\ query.ClassSyms = << "B", "D", "D", "B" >>


----------------------------------------------------------------------------
(* Properties of create, continued *)

\* C24: without readonly, a failure to create the store's directory writes
\* its message into the error string and init goes on to open the index
\* store: when create has returned, it returned a facade with all its
\* collaborators unless a later step failed and wrote its own message.  With
\* readonly, create_directories is never called.
C24_MkdirFailureDoesNotAbort ==
  /\ initArgs.readonly => Impl.EC = "none"
  /\ (Impl.EC = "error" /\ initPc = "store") => (Error = MkdirMessage /\ ~Impl.Err)
  /\ (Impl.EC = "error" /\ initPc = "done") =>
       /\ Index = "facade" <=> Error = MkdirMessage
       /\ Index = "facade" => AllConstructed(Impl.members)
       /\ Index = "null" => Error \in {"could not open index store", "could not create datastore"}

\* create returned a facade although the directory could not be created; the
\* error string holds the message.
C24_Witness ==
  /\ initPc = "done"
  /\ ~initArgs.readonly
  /\ Impl.EC = "error"
  /\ Index = "facade"
  /\ Error = MkdirMessage


----------------------------------------------------------------------------
(* Properties of the synchronous unitIsOutOfDate *)

\* The reporter makes a call of unitIsOutOfDate with synchronous true.
CallSync(t) == CallEvent(t) /\ cur'[t].synchronous

\* C25: unitIsOutOfDate with synchronous true goes past the queue.  Whatever
\* the queue holds and the worker is doing, a reporter in no call can make
\* the call; the call leaves the queue, the worker's task and the enqueued
\* events as they are, and with a user delegate its callback starts in the
\* step of the call, on the caller's thread.
C25_SyncBypassesQueue ==
  /\ [](\A t \in Reporters : (Free(t) /\ nextId <= MaxCalls) => ENABLED CallSync(t))
  /\ [][\A t \in Reporters :
          (nextId' # nextId /\ cur'[t] # cur[t] /\ cur'[t].synchronous) =>
            /\ Queue' = Queue
            /\ running' = running
            /\ handed' = handed
            /\ Other =>
                 /\ pc'[t] = "inline"
                 /\ userLog' = Append(userLog,
                      [method |-> "unitIsOutOfDate", arg |-> nextId,
                       synchronous |-> TRUE, thread |-> t])]_vars

\* A reporter is inside the callback of its synchronous unitIsOutOfDate
\* while an asynchronous event handed in before it waits in the queue, its
\* callback not started.
C25_Witness ==
  \E t \in Reporters :
    /\ pc[t] = "inline"
    /\ cur[t].synchronous
    /\ userLog # << >>
    /\ userLog[Len(userLog)].arg = cur[t].arg
    /\ \E i \in 1..Len(Queue) :
         /\ Queue[i].type = "event"
         /\ Queue[i].arg < cur[t].arg
         /\ \A k \in 1..Len(userLog) : userLog[k].arg # Queue[i].arg

=============================================================================
